---- MODULE Spec2Model ----
(***************************************************************************)
(* json-result: an untagged two-outcome codec over serde_json::Value.      *)
(*                                                                         *)
(* Two facades are modelled:                                               *)
(*   - the tagged facade, enum JsonResult<T, E> { Ok(T), Err(E) }          *)
(*     (src/src/enum.rs, duplicated at the crate root in src/src/lib.rs);  *)
(*   - the transparent facade, struct JsonResult<T, E>(pub Result<T, E>)   *)
(*     (src/src/struct.rs).                                                *)
(*                                                                         *)
(* Representation.                                                         *)
(*   raw values (serde_json::Value)                                        *)
(*       <<"null">>  <<"num", n>>  <<"str", s>>                            *)
(*       <<"arr", <<v1, ..., vk>> >>                                       *)
(*       <<"obj", << <<k1, v1>>, ... >> >>   keys in BTreeMap order        *)
(*   JSON text handed to serde_json::from_str: <<"text", s>>               *)
(*   typed values, tagged by their Rust type                               *)
(*       <<"u32", n>>  <<"String", s>>                                     *)
(*       <<"GoodT", <<"u32", n>> >>      GoodT { x: n }                    *)
(*       <<"BadE", <<"String", s>> >>    BadE { msg: s }                   *)
(*       <<"Ok", v>>  <<"Err", e>>       std Result<T, E>                  *)
(*       <<"JsonResult", r>>             struct JsonResult(r)              *)
(*       <<"JsonResult::Ok", v>>  <<"JsonResult::Err", e>>   the enum      *)
(*   shapes (the type parameters T and E)                                  *)
(*       <<"u32">> <<"String">> <<"GoodT">> <<"BadE">>                     *)
(*       <<"struct", A, B>>   struct::JsonResult<A, B> used as a shape     *)
(*       <<"enum", A, B>>     enum::JsonResult<A, B> used as a shape       *)
(*   text (error messages, type names): a sequence of string pieces, the   *)
(*   pieces a format! or a Display impl writes one after another.          *)
(***************************************************************************)
EXTENDS Integers, Sequences, FiniteSets, TLC

VARIABLES
    T,       \* the success shape the program is instantiated at
    E,       \* the error shape
    facade,  \* which facade the program uses: "enum" or "struct"
    cur,     \* the Outcome instance the program holds, or None
    native,  \* a std Result run side by side with the struct facade, or None
    enc,     \* the instance the last encode read, kept while its output is decoded
    op,      \* the operation that ran last
    inp,     \* its input
    out,     \* its result
    nout,    \* the result of the same read on the native Result
    prev,    \* the wrapped value a write through DerefMut overwrote, or None
    attempts \* the shape attempts the last decode made, in the order made

vars == <<T, E, facade, cur, native, enc, op, inp, out, nout, prev, attempts>>

None == <<"none">>

(***************************************************************************)
(* Bounds of the model.                                                    *)
(***************************************************************************)
\* numbers range over -1 .. MaxNum (-1 is the number a u32 rejects)
MaxNum == 1
\* raw arrays hold at most MaxArr elements
MaxArr == 2
\* raw objects hold at most MaxKeys keys
MaxKeys == 2

(***************************************************************************)
(* Text.                                                                   *)
(***************************************************************************)
\* the literal the two format! calls open each half of the Diagnostic with
PHRASE == "Failed to parse as "

NL == "\n"

\* the strings payloads and raw values are drawn from; one of them is the
\* Diagnostic's own phrase, which a raw input is free to contain
Strs == {"boom", PHRASE}

Nums == 0..MaxNum

RECURSIVE CountIn(_, _)
\* occurrences of piece p in text s
CountIn(p, s) ==
    IF s = <<>> THEN 0
    ELSE (IF Head(s) = p THEN 1 ELSE 0) + CountIn(p, Tail(s))

\* text t occurs in text s
Contains(s, t) ==
    \E i \in 0..(Len(s) - Len(t)) : SubSeq(s, i + 1, i + Len(t)) = t

\* the lines of a text are separated by its NL pieces
LineCount(s) == 1 + CountIn(NL, s)

(***************************************************************************)
(* Raw values.                                                             *)
(***************************************************************************)
Keys == {"x", "msg", "something"}

\* serde_json::Map is a BTreeMap: entries are visited in key order
KeyOrder == <<"msg", "something", "x">>

Scalars ==
    {<<"null">>} \cup {<<"num", n>> : n \in (-1)..MaxNum} \cup {<<"str", s>> : s \in Strs}

\* what the elements of raw arrays and the members of raw objects are drawn from
Elems == {<<"num", 1>>, <<"str", "boom">>}

MkObj(f) ==
    LET sel == SelectSeq(KeyOrder, LAMBDA k : k \in DOMAIN f)
    IN  <<"obj", [i \in 1..Len(sel) |-> <<sel[i], f[sel[i]]>>]>>

Arrays ==
    UNION {{<<"arr", s>> : s \in [1..n -> Elems]} : n \in 0..MaxArr}

Objects ==
    UNION {{MkObj(f) : f \in [S -> Elems]} :
             S \in {S0 \in SUBSET Keys : Cardinality(S0) <= MaxKeys}}

RawValues == Scalars \cup Arrays \cup Objects

(***************************************************************************)
(* Shapes and typed values.                                                *)
(***************************************************************************)
BaseShapes == {<<"u32">>, <<"String">>, <<"GoodT">>, <<"BadE">>}

Facades == {"enum", "struct"}

\* the facades themselves are Serialize + DeserializeOwned, hence shapes
WrapperShapes ==
    {<<f, <<"GoodT">>, B>> : f \in Facades, B \in {<<"GoodT">>, <<"BadE">>}}

Shapes == BaseShapes \cup WrapperShapes

IsRecord(S) == S[1] \in {"GoodT", "BadE"}

\* the single required field of a record shape, and that field's shape
FieldKey(S) == IF S[1] = "GoodT" THEN "x" ELSE "msg"

FieldShape(S) == IF S[1] = "GoodT" THEN <<"u32">> ELSE <<"String">>

BaseValuesOf(S) ==
    CASE S[1] = "u32"    -> {<<"u32", n>> : n \in Nums}
      [] S[1] = "String" -> {<<"String", s>> : s \in Strs}
      [] S[1] = "GoodT"  -> {<<"GoodT", <<"u32", n>>>> : n \in Nums}
      [] S[1] = "BadE"   -> {<<"BadE", <<"String", s>>>> : s \in Strs}

\* std Result<A, B>
ResultsOf(A, B) ==
    {<<"Ok", v>> : v \in BaseValuesOf(A)} \cup {<<"Err", e>> : e \in BaseValuesOf(B)}

ValuesOf(S) ==
    CASE S[1] = "struct" -> {<<"JsonResult", r>> : r \in ResultsOf(S[2], S[3])}
      [] S[1] = "enum"   ->
            {<<"JsonResult::Ok", v>> : v \in BaseValuesOf(S[2])}
            \cup {<<"JsonResult::Err", e>> : e \in BaseValuesOf(S[3])}
      [] OTHER           -> BaseValuesOf(S)

\* std Result<T, E> over every shape of the model
NativeResults(A, B) ==
    {<<"Ok", v>> : v \in ValuesOf(A)} \cup {<<"Err", e>> : e \in ValuesOf(B)}

(***************************************************************************)
(* serde_json: encoding of a typed value, decoding against a shape.        *)
(***************************************************************************)
\* std::any::type_name::<S>()
RECURSIVE type_name(_)
type_name(S) ==
    CASE S[1] = "u32"    -> <<"u32">>
      [] S[1] = "String" -> <<"alloc::string::String">>
      [] S[1] = "GoodT"  -> <<"json_result::enum::tests::GoodT">>
      [] S[1] = "BadE"   -> <<"json_result::enum::tests::BadE">>
      [] S[1] = "struct" ->
            <<"json_result::struct::JsonResult<">> \o type_name(S[2]) \o <<", ">>
                \o type_name(S[3]) \o <<">">>
      [] S[1] = "enum"   ->
            <<"json_result::enum::JsonResult<">> \o type_name(S[2]) \o <<", ">>
                \o type_name(S[3]) \o <<">">>

\* what a shape's visitor says it expects
expecting(S) ==
    CASE S[1] = "u32"    -> "u32"
      [] S[1] = "String" -> "a string"
      [] S[1] = "GoodT"  -> "struct GoodT"
      [] S[1] = "BadE"   -> "struct BadE"

\* how serde_json names the raw value a visitor did not expect; a string is
\* echoed (quoted) into the message
unexpected(raw) ==
    CASE raw[1] = "null" -> <<"null">>
      [] raw[1] = "num"  -> <<"integer ", ToString(raw[2])>>
      [] raw[1] = "str"  -> <<"string \"", raw[2], "\"">>
      [] raw[1] = "arr"  -> <<"sequence">>
      [] raw[1] = "obj"  -> <<"map">>

invalid_type(raw, S) ==
    <<"invalid type: ">> \o unexpected(raw) \o <<", expected ", expecting(S)>>

invalid_value(raw, S) ==
    <<"invalid value: ">> \o unexpected(raw) \o <<", expected ", expecting(S)>>

\* the member of raw object `entries` under key k, or <<>> when there is none
Lookup(entries, k) ==
    LET hits == SelectSeq(entries, LAMBDA kv : kv[1] = k)
    IN  IF hits = <<>> THEN <<>> ELSE hits[1][2]

RECURSIVE to_value(_), serialize(_)
\* serialize as std Result itself serializes, under its variant's name
serialize_Tagged(w) == <<"obj", << <<w[2][1], to_value(w[2][2])>> >> >>

\* impl Serialize for struct JsonResult: the populated payload, nothing else
serialize(w) ==
    IF w[2][1] = "Ok" THEN to_value(w[2][2]) ELSE to_value(w[2][2])

\* serde_json::to_value / json!: the raw value of a typed value
to_value(v) ==
    CASE v[1] = "u32"             -> <<"num", v[2]>>
      [] v[1] = "String"          -> <<"str", v[2]>>
      [] v[1] = "GoodT"           -> <<"obj", << <<"x", to_value(v[2])>> >> >>
      [] v[1] = "BadE"            -> <<"obj", << <<"msg", to_value(v[2])>> >> >>
      [] v[1] = "JsonResult"      -> serialize(v)
      [] v[1] = "JsonResult::Ok"  -> to_value(v[2])
      [] v[1] = "JsonResult::Err" -> to_value(v[2])

Ok(v) == <<"Ok", v>>

Err(e) == <<"Err", e>>

IsOk(r) == r[1] = "Ok"

\* JSON texts: three well-formed ones and three that are not
Texts ==
    {<<"text", s>> : s \in {"1", "\"boom\"", "null", "", "{", "nul"}}

\* serde_json::Value::deserialize(deserializer): a Value is its own
\* deserializer and yields itself; a text is parsed, and a text that is not
\* well-formed yields a syntax error
Value_deserialize(d) ==
    IF d[1] # "text" THEN Ok(d)
    ELSE CASE d[2] = "1"        -> Ok(<<"num", 1>>)
           [] d[2] = "\"boom\"" -> Ok(<<"str", "boom">>)
           [] d[2] = "null"     -> Ok(<<"null">>)
           [] d[2] = ""         -> Err(<<"EOF while parsing a value", " at line 1 column 0">>)
           [] d[2] = "{"        -> Err(<<"EOF while parsing an object", " at line 1 column 1">>)
           [] d[2] = "nul"      -> Err(<<"EOF while parsing a value", " at line 1 column 3">>)

RECURSIVE from_value(_, _), deserialize(_, _, _), untagged_deserialize(_, _, _)

\* deserialize_struct without the check that the array has nothing left
\* over: the first element is the field, the rest is dropped
from_record_AnyLength(S, raw) ==
    CASE raw[1] = "obj" ->
            LET member == Lookup(raw[2], FieldKey(S))
            IN  IF member = <<>>
                THEN Err(<<"missing field ", FieldKey(S)>>)
                ELSE LET f == from_value(FieldShape(S), member)
                     IN  IF IsOk(f) THEN Ok(<<S[1], f[2]>>) ELSE f
      [] raw[1] = "arr" ->
            IF raw[2] = <<>>
            THEN Err(<<"invalid length 0, expected ", expecting(S), " with 1 element">>)
            ELSE LET f == from_value(FieldShape(S), raw[2][1])
                 IN  IF IsOk(f) THEN Ok(<<S[1], f[2]>>) ELSE f
      [] OTHER -> Err(invalid_type(raw, S))

\* a derived record shape: deserialize_struct on a serde_json::Value
from_record(S, raw) ==
    CASE raw[1] = "obj" ->
            \* visit_map: unknown keys are ignored, the field is required
            LET member == Lookup(raw[2], FieldKey(S))
            IN  IF member = <<>>
                THEN Err(<<"missing field ", FieldKey(S)>>)
                ELSE LET f == from_value(FieldShape(S), member)
                     IN  IF IsOk(f) THEN Ok(<<S[1], f[2]>>) ELSE f
      [] raw[1] = "arr" ->
            \* visit_seq, then visit_array's check that nothing is left over
            IF raw[2] = <<>>
            THEN Err(<<"invalid length 0, expected ", expecting(S), " with 1 element">>)
            ELSE LET f == from_value(FieldShape(S), raw[2][1])
                 IN  IF ~IsOk(f) THEN f
                     ELSE IF Len(raw[2]) > 1
                     THEN Err(<<"invalid length ", ToString(Len(raw[2])),
                                ", expected fewer elements in array">>)
                     ELSE Ok(<<S[1], f[2]>>)
      [] OTHER -> Err(invalid_type(raw, S))

\* serde_json::from_value::<S>(raw): Ok(typed value) or Err(failure detail)
from_value(S, raw) ==
    CASE S[1] = "u32" ->
            IF raw[1] = "num"
            THEN IF raw[2] >= 0 THEN Ok(<<"u32", raw[2]>>) ELSE Err(invalid_value(raw, S))
            ELSE Err(invalid_type(raw, S))
      [] S[1] = "String" ->
            IF raw[1] = "str" THEN Ok(<<"String", raw[2]>>) ELSE Err(invalid_type(raw, S))
      [] IsRecord(S) -> from_record(S, raw)
      [] S[1] = "struct" -> deserialize(S[2], S[3], raw)
      [] S[1] = "enum" -> untagged_deserialize(S[2], S[3], raw)

\* #[derive(Deserialize)] #[serde(untagged)] on the enum: the variants in
\* declaration order, the first that matches
untagged_deserialize(A, B, raw) ==
    LET a == from_value(A, raw)
    IN  IF IsOk(a) THEN Ok(<<"JsonResult::Ok", a[2]>>)
        ELSE LET b == from_value(B, raw)
             IN  IF IsOk(b) THEN Ok(<<"JsonResult::Err", b[2]>>)
                 ELSE Err(<<"data did not match any variant of untagged enum JsonResult">>)

\* deserialize with the two match arms in the wrong order: E wins a tie
deserialize_EFirst(A, B, d) ==
    LET value == Value_deserialize(d)
    IN  IF ~IsOk(value) THEN value
        ELSE LET try_t == from_value(A, value[2])
                 try_e == from_value(B, value[2])
             IN  IF IsOk(try_e) THEN Ok(<<"JsonResult", Err(try_e[2])>>)
                 ELSE IF IsOk(try_t) THEN Ok(<<"JsonResult", Ok(try_t[2])>>)
                 ELSE Err(<<PHRASE>> \o type_name(A) \o <<": ">> \o try_t[2] \o <<NL>>
                          \o <<PHRASE>> \o type_name(B) \o <<": ">> \o try_e[2])

\* deserialize naming T in both halves of the Diagnostic
deserialize_OneName(A, B, d) ==
    LET value == Value_deserialize(d)
    IN  IF ~IsOk(value) THEN value
        ELSE LET try_t == from_value(A, value[2])
                 try_e == from_value(B, value[2])
             IN  IF IsOk(try_t) THEN Ok(<<"JsonResult", Ok(try_t[2])>>)
                 ELSE IF IsOk(try_e) THEN Ok(<<"JsonResult", Err(try_e[2])>>)
                 ELSE Err(<<PHRASE>> \o type_name(A) \o <<": ">> \o try_t[2] \o <<NL>>
                          \o <<PHRASE>> \o type_name(A) \o <<": ">> \o try_e[2])

\* deserialize without the (_, Ok(e)) arm: a T failure is final
deserialize_NoFallback(A, B, d) ==
    LET value == Value_deserialize(d)
    IN  IF ~IsOk(value) THEN value
        ELSE LET try_t == from_value(A, value[2])
                 try_e == from_value(B, value[2])
             IN  IF IsOk(try_t) THEN Ok(<<"JsonResult", Ok(try_t[2])>>)
                 ELSE Err(<<PHRASE>> \o type_name(A) \o <<": ">> \o try_t[2] \o <<NL>>
                          \o <<PHRASE>> \o type_name(B) \o <<": ">> \o try_e[2])

\* deserialize without the early return: an input that does not parse goes
\* on as Value::Null
deserialize_NoEarlyReturn(A, B, d) ==
    LET parsed == Value_deserialize(d)
        value == IF IsOk(parsed) THEN parsed ELSE Ok(<<"null">>)
        try_t == from_value(A, value[2])
        try_e == from_value(B, value[2])
    IN  IF IsOk(try_t) THEN Ok(<<"JsonResult", Ok(try_t[2])>>)
        ELSE IF IsOk(try_e) THEN Ok(<<"JsonResult", Err(try_e[2])>>)
        ELSE Err(<<PHRASE>> \o type_name(A) \o <<": ">> \o try_t[2] \o <<NL>>
                 \o <<PHRASE>> \o type_name(B) \o <<": ">> \o try_e[2])

\* impl Deserialize for struct JsonResult<A, B>; d is the deserializer
deserialize(A, B, d) ==
    LET value == Value_deserialize(d)
    IN  IF ~IsOk(value) THEN value
        ELSE LET try_t == from_value(A, value[2])
                 try_e == from_value(B, value[2])
             IN  IF IsOk(try_t) THEN Ok(<<"JsonResult", Ok(try_t[2])>>)
                 ELSE IF IsOk(try_e) THEN Ok(<<"JsonResult", Err(try_e[2])>>)
                 ELSE Err(<<PHRASE>> \o type_name(A) \o <<": ">> \o try_t[2] \o <<NL>>
                          \o <<PHRASE>> \o type_name(B) \o <<": ">> \o try_e[2])

\* try_from with the two match arms in the wrong order: E wins a tie
try_from_EFirst(A, B, value) ==
    LET t_res == from_value(A, value)
        e_res == from_value(B, value)
    IN  IF IsOk(e_res) THEN Ok(<<"JsonResult::Err", e_res[2]>>)
        ELSE IF IsOk(t_res) THEN Ok(<<"JsonResult::Ok", t_res[2]>>)
        ELSE Err(<<PHRASE>> \o type_name(A) \o <<": ">> \o t_res[2] \o <<NL>>
                 \o <<PHRASE>> \o type_name(B) \o <<": ">> \o e_res[2])

\* try_from with the format! arguments in the order e, t
try_from_MsgSwapped(A, B, value) ==
    LET t_res == from_value(A, value)
        e_res == from_value(B, value)
    IN  IF IsOk(t_res) THEN Ok(<<"JsonResult::Ok", t_res[2]>>)
        ELSE IF IsOk(e_res) THEN Ok(<<"JsonResult::Err", e_res[2]>>)
        ELSE Err(<<PHRASE>> \o type_name(B) \o <<": ">> \o e_res[2] \o <<NL>>
                 \o <<PHRASE>> \o type_name(A) \o <<": ">> \o t_res[2])

\* try_from without the (_, Ok(e)) arm: a T failure is final
try_from_NoFallback(A, B, value) ==
    LET t_res == from_value(A, value)
        e_res == from_value(B, value)
    IN  IF IsOk(t_res) THEN Ok(<<"JsonResult::Ok", t_res[2]>>)
        ELSE Err(<<PHRASE>> \o type_name(A) \o <<": ">> \o t_res[2] \o <<NL>>
                 \o <<PHRASE>> \o type_name(B) \o <<": ">> \o e_res[2])

\* impl TryFrom<serde_json::Value> for enum JsonResult<A, B>
try_from(A, B, value) ==
    LET t_res == from_value(A, value)
        e_res == from_value(B, value)
    IN  IF IsOk(t_res) THEN Ok(<<"JsonResult::Ok", t_res[2]>>)
        ELSE IF IsOk(e_res) THEN Ok(<<"JsonResult::Err", e_res[2]>>)
        ELSE Err(<<PHRASE>> \o type_name(A) \o <<": ">> \o t_res[2] \o <<NL>>
                 \o <<PHRASE>> \o type_name(B) \o <<": ">> \o e_res[2])


\* the attempts the derived untagged decode makes, in the order it makes
\* them, each with whether it succeeded: the second variant is tried only
\* when the first did not match
untagged_attempts(A, B, raw) ==
    IF IsOk(from_value(A, raw)) THEN <<<<"T", TRUE>>>>
    ELSE <<<<"T", FALSE>>, <<"E", IsOk(from_value(B, raw))>>>>

\* the two from_value calls of try_from in the other order
try_from_attempts_EFirst(A, B, value) ==
    <<<<"E", IsOk(from_value(B, value))>>, <<"T", IsOk(from_value(A, value))>>>>

\* the from_value calls try_from makes, in the order it makes them, each
\* with whether it succeeded: both are made before the match
try_from_attempts(A, B, value) ==
    <<<<"T", IsOk(from_value(A, value))>>, <<"E", IsOk(from_value(B, value))>>>>

\* the from_value calls deserialize makes, in the order it makes them, each
\* with whether it succeeded: none when the input does not parse, else both
deserialize_attempts(A, B, d) ==
    LET value == Value_deserialize(d)
    IN  IF ~IsOk(value) THEN <<>>
        ELSE <<<<"T", IsOk(from_value(A, value[2]))>>,
               <<"E", IsOk(from_value(B, value[2]))>>>>

\* impl From<enum JsonResult<T, E>> for serde_json::Value
enum_into_value(res) ==
    IF res[1] = "JsonResult::Ok" THEN to_value(res[2]) ELSE to_value(res[2])

\* the conversion handing the whole Result to json!, which names the variant
struct_into_value_Tagged(value) ==
    <<"obj", << <<value[2][1], to_value(value[2][2])>> >> >>

\* impl From<struct JsonResult<T, E>> for serde_json::Value
struct_into_value(value) ==
    IF value[2][1] = "Ok" THEN to_value(value[2][2]) ELSE to_value(value[2][2])

\* the conversion with its two arms crossed
from_result_Swapped(r) ==
    IF r[1] = "Ok" THEN <<"JsonResult::Err", r[2]>> ELSE <<"JsonResult::Ok", r[2]>>

\* the conversion mapping both sides to the success variant
from_result_AlwaysOk(r) == <<"JsonResult::Ok", r[2]>>

\* impl From<Result<T, E>> for enum JsonResult<T, E>
from_result(r) ==
    IF r[1] = "Ok" THEN <<"JsonResult::Ok", r[2]>> ELSE <<"JsonResult::Err", r[2]>>

\* deref handing out the payload as a success, whichever side is populated
deref_AsOk(w) == Ok(w[2][2])

\* impl Deref for struct JsonResult: &self.0
deref(w) == w[2]

\* deref_mut handing out a copy: the store never reaches the wrapper
deref_mut_Stale(w, r) == w

\* impl DerefMut for struct JsonResult: the wrapper after r is stored through
\* the &mut self.0 that deref_mut hands out
deref_mut(w, r) == <<w[1], r>>

(***************************************************************************)
(* std Result methods, reached on the struct facade through Deref.         *)
(***************************************************************************)
\* is_ok(), is_err(), as_ref().ok(), as_ref().err()
ReadMethods == {"is_ok", "is_err", "ok", "err"}

ResultMethod(m, r) ==
    CASE m = "is_ok"  -> <<"bool", r[1] = "Ok">>
      [] m = "is_err" -> <<"bool", r[1] = "Err">>
      [] m = "ok"     -> IF r[1] = "Ok" THEN <<"Some", r[2]>> ELSE <<"Option::None">>
      [] m = "err"    -> IF r[1] = "Err" THEN <<"Some", r[2]>> ELSE <<"Option::None">>

EncodeOps == {"into_value", "serialize"}

DecodeOps == {"try_from", "deserialize"}

(***************************************************************************)
(* The program: one Outcome instance at shapes T and E.                    *)
(***************************************************************************)
Init ==
    /\ T \in Shapes
    /\ E \in Shapes
    /\ facade \in Facades
    /\ cur = None
    /\ native = None
    /\ enc = None
    /\ op = "init"
    /\ inp = None
    /\ out = None
    /\ nout = None
    /\ prev = None
    /\ attempts = <<>>

\* JsonResult::Ok(v) / JsonResult::Err(e), written by the producer
NewEnum ==
    /\ facade = "enum"
    /\ \E r \in NativeResults(T, E) :
          /\ cur' = <<IF r[1] = "Ok" THEN "JsonResult::Ok" ELSE "JsonResult::Err", r[2]>>
          /\ inp' = r
    /\ op' = "new"
    /\ attempts' = <<>>
    /\ out' = None
    /\ enc' = None
    /\ nout' = None
    /\ prev' = None
    /\ UNCHANGED <<T, E, facade, native>>

\* JsonResult(r), written by the producer; the native Result starts equal
NewStruct ==
    /\ facade = "struct"
    /\ \E r \in NativeResults(T, E) :
          /\ cur' = <<"JsonResult", r>>
          /\ native' = r
          /\ inp' = r
    /\ op' = "new"
    /\ attempts' = <<>>
    /\ out' = None
    /\ enc' = None
    /\ nout' = None
    /\ prev' = None
    /\ UNCHANGED <<T, E, facade>>

\* JsonResult::from(r)
FromResult ==
    /\ facade = "enum"
    /\ \E r \in NativeResults(T, E) :
          /\ cur' = from_result(r)
          /\ inp' = r
          /\ out' = from_result(r)
    /\ op' = "from_result"
    /\ attempts' = <<>>
    /\ enc' = None
    /\ nout' = None
    /\ prev' = None
    /\ UNCHANGED <<T, E, facade, native>>

\* the raw values a decode may be handed: any raw value, and what the last
\* encode produced
DecodeInputs == RawValues \cup (IF op \in EncodeOps THEN {out} ELSE {})

\* JsonResult::<T, E>::try_from(raw)
TryFrom ==
    /\ facade = "enum"
    /\ \E raw \in DecodeInputs :
          LET r == try_from(T, E, raw)
          IN  /\ inp' = raw
              /\ out' = r
              /\ attempts' = try_from_attempts(T, E, raw)
              /\ cur' = IF IsOk(r) THEN r[2] ELSE None
              /\ enc' = IF op \in EncodeOps /\ raw = out THEN enc ELSE None
    /\ op' = "try_from"
    /\ nout' = None
    /\ prev' = None
    /\ UNCHANGED <<T, E, facade, native>>

\* serde_json::from_value::<JsonResult<T, E>>(raw) on the enum: the derived
\* untagged Deserialize
EnumDeserialize ==
    /\ facade = "enum"
    /\ \E raw \in RawValues :
          LET r == untagged_deserialize(T, E, raw)
          IN  /\ inp' = raw
              /\ out' = r
              /\ attempts' = untagged_attempts(T, E, raw)
              /\ cur' = IF IsOk(r) THEN r[2] ELSE None
    /\ op' = "untagged"
    /\ enc' = None
    /\ nout' = None
    /\ prev' = None
    /\ UNCHANGED <<T, E, facade, native>>

\* serde_json::from_value::<JsonResult<T, E>>(raw)
Deserialize ==
    /\ facade = "struct"
    /\ \E raw \in DecodeInputs :
          LET r == deserialize(T, E, raw)
          IN  /\ inp' = raw
              /\ out' = r
              /\ attempts' = deserialize_attempts(T, E, raw)
              /\ cur' = IF IsOk(r) THEN r[2] ELSE None
              /\ native' = IF IsOk(r) THEN r[2][2] ELSE None
              /\ enc' = IF op \in EncodeOps /\ raw = out THEN enc ELSE None
    /\ op' = "deserialize"
    /\ nout' = None
    /\ prev' = None
    /\ UNCHANGED <<T, E, facade>>

\* serde_json::from_str::<JsonResult<T, E>>(text)
FromStr ==
    /\ facade = "struct"
    /\ \E text \in Texts :
          LET r == deserialize(T, E, text)
          IN  /\ inp' = text
              /\ out' = r
              /\ attempts' = deserialize_attempts(T, E, text)
              /\ cur' = IF IsOk(r) THEN r[2] ELSE None
              /\ native' = IF IsOk(r) THEN r[2][2] ELSE None
    /\ op' = "from_str"
    /\ enc' = None
    /\ nout' = None
    /\ prev' = None
    /\ UNCHANGED <<T, E, facade>>

\* let json: serde_json::Value = cur.into();   (cur is moved)
IntoValue ==
    /\ cur # None
    /\ out' = IF facade = "enum" THEN enum_into_value(cur) ELSE struct_into_value(cur)
    /\ inp' = cur
    /\ enc' = cur
    /\ cur' = None
    /\ native' = None
    /\ op' = "into_value"
    /\ attempts' = <<>>
    /\ nout' = None
    /\ prev' = None
    /\ UNCHANGED <<T, E, facade>>

\* serde_json::to_value(&cur)
Serialize ==
    /\ cur # None
    /\ out' = to_value(cur)
    /\ inp' = cur
    /\ enc' = cur
    /\ op' = "serialize"
    /\ attempts' = <<>>
    /\ nout' = None
    /\ prev' = None
    /\ UNCHANGED <<T, E, facade, cur, native>>

\* a std Result method called on the wrapper, and on the native Result
Read ==
    /\ facade = "struct"
    /\ cur # None
    /\ \E m \in ReadMethods :
          /\ inp' = <<m>>
          /\ out' = ResultMethod(m, deref(cur))
          /\ nout' = ResultMethod(m, native)
    /\ op' = "read"
    /\ attempts' = <<>>
    /\ enc' = None
    /\ UNCHANGED <<T, E, facade, cur, native, prev>>

\* *cur = r;
Replace ==
    /\ facade = "struct"
    /\ cur # None
    /\ \E r \in NativeResults(T, E) :
          /\ cur' = deref_mut(cur, r)
          /\ native' = r
          /\ inp' = r
    /\ prev' = deref(cur)
    /\ op' = "replace"
    /\ attempts' = <<>>
    /\ out' = None
    /\ nout' = None
    /\ enc' = None
    /\ UNCHANGED <<T, E, facade>>

\* if let Ok(v) = cur.deref_mut() { *v = new; }
Modify ==
    /\ facade = "struct"
    /\ cur # None
    /\ \E new \in ValuesOf(T) :
          /\ cur' = IF deref(cur)[1] = "Ok" THEN deref_mut(cur, Ok(new)) ELSE cur
          /\ native' = IF native[1] = "Ok" THEN Ok(new) ELSE native
          /\ inp' = new
    /\ prev' = deref(cur)
    /\ op' = "modify"
    /\ attempts' = <<>>
    /\ out' = None
    /\ nout' = None
    /\ enc' = None
    /\ UNCHANGED <<T, E, facade>>

Next ==
    \/ NewEnum
    \/ NewStruct
    \/ FromResult
    \/ TryFrom
    \/ EnumDeserialize
    \/ Deserialize
    \/ FromStr
    \/ IntoValue
    \/ Serialize
    \/ Read
    \/ Replace
    \/ Modify

Spec == Init /\ [][Next]_vars

(***************************************************************************)
(* Properties.                                                             *)
(***************************************************************************)
\* the success / error outcome of the facade in use, holding payload v
Success(v) ==
    IF facade = "enum" THEN <<"JsonResult::Ok", v>> ELSE <<"JsonResult", <<"Ok", v>>>>

Failure(e) ==
    IF facade = "enum" THEN <<"JsonResult::Err", e>> ELSE <<"JsonResult", <<"Err", e>>>>

IsSuccess(x) == x[1] = "JsonResult::Ok" \/ (x[1] = "JsonResult" /\ x[2][1] = "Ok")

IsFailure(x) == x[1] = "JsonResult::Err" \/ (x[1] = "JsonResult" /\ x[2][1] = "Err")

Payload(x) == IF x[1] = "JsonResult" THEN x[2][2] ELSE x[2]

Decoded == op \in DecodeOps

\* the last decode was handed the output of the encode before it
RoundTrip == Decoded /\ enc # None

\* C1: first match wins. Whenever the raw value handed to a decode (try_from
\* on the tagged facade, deserialize on the transparent one) decodes as T, the
\* decode returns the success outcome holding the T-decoded value, also when
\* the raw value decodes as E too.
C1_FirstMatchWins ==
    (Decoded /\ IsOk(from_value(T, inp)))
        => out = Ok(Success(from_value(T, inp)[2]))

\* a decode of a raw value that matches both shapes, T and E being different
C1_Witness ==
    /\ Decoded
    /\ T # E
    /\ IsOk(from_value(T, inp))
    /\ IsOk(from_value(E, inp))
    /\ IsOk(out)
    /\ IsSuccess(out[2])

\* C2 as stated: decode(encode(Success(v))) = Success(v) for every T value v
\* and every E.
C2_Original ==
    (RoundTrip /\ IsSuccess(enc)) => out = Ok(enc)

\* C2, amended: decode(encode(Success(v))) = Success(v) for every E and every
\* T value v whose own encoding decodes, as T, back to v.
C2_RoundTripSuccess ==
    (/\ RoundTrip
     /\ IsSuccess(enc)
     /\ from_value(T, to_value(Payload(enc))) = Ok(Payload(enc)))
        => out = Ok(enc)

\* a success value round-tripped at shapes where its encoding matches E too
C2_Witness ==
    /\ RoundTrip
    /\ IsSuccess(enc)
    /\ from_value(T, to_value(Payload(enc))) = Ok(Payload(enc))
    /\ IsOk(from_value(E, inp))
    /\ out = Ok(enc)

\* C3 as stated: decode(encode(Failure(v))) = Failure(v) for every E value v
\* and every T.
C3_Original ==
    (RoundTrip /\ IsFailure(enc)) => out = Ok(enc)

\* C3, amended: decode(encode(Failure(v))) = Failure(v) for every E value v
\* whose encoding does not decode as T and decodes, as E, back to v.
C3_RoundTripError ==
    (/\ RoundTrip
     /\ IsFailure(enc)
     /\ ~IsOk(from_value(T, inp))
     /\ from_value(E, to_value(Payload(enc))) = Ok(Payload(enc)))
        => out = Ok(enc)

\* an error value round-tripped back to itself
C3_Witness ==
    /\ RoundTrip
    /\ IsFailure(enc)
    /\ ~IsOk(from_value(T, inp))
    /\ out = Ok(enc)

\* C4: fallback. Whenever the raw value fails to decode as T and decodes as
\* E, the decode returns the error outcome holding the E-decoded value.
C4_Fallback ==
    (Decoded /\ ~IsOk(from_value(T, inp)) /\ IsOk(from_value(E, inp)))
        => out = Ok(Failure(from_value(E, inp)[2]))

\* raw string against number / string: Failure of that string
C4_Witness ==
    /\ Decoded
    /\ T = <<"u32">>
    /\ E = <<"String">>
    /\ inp = <<"str", "boom">>
    /\ out = Ok(Failure(<<"String", "boom">>))

\* C5: a decode fails exactly when the raw value decodes as neither shape;
\* when it succeeds, the outcome holds what T or E decoded, never a default.
C5_FailsIffNeither ==
    Decoded =>
        /\ ~IsOk(out) <=> (~IsOk(from_value(T, inp)) /\ ~IsOk(from_value(E, inp)))
        /\ IsOk(out) =>
              \/ (IsSuccess(out[2]) /\ from_value(T, inp) = Ok(Payload(out[2])))
              \/ (IsFailure(out[2]) /\ from_value(E, inp) = Ok(Payload(out[2])))

\* a decode of a raw value that matches neither shape has failed
C5_Witness ==
    /\ Decoded
    /\ ~IsOk(from_value(T, inp))
    /\ ~IsOk(from_value(E, inp))
    /\ ~IsOk(out)
    /\ cur = None

\* the last decode failed: the raw value matched neither shape
DualFailure == Decoded /\ ~IsOk(out)

\* the failure details of the two attempts
TDetail == from_value(T, inp)[2]

EDetail == from_value(E, inp)[2]

\* the Diagnostic's two halves, success shape first, a line break between
InOrder(msg) ==
    msg = <<PHRASE>> \o type_name(T) \o <<": ">> \o TDetail \o <<NL>>
          \o <<PHRASE>> \o type_name(E) \o <<": ">> \o EDetail

\* C6 as stated: the Diagnostic is the identity of T, the T failure detail,
\* the identity of E, the E failure detail, in this order, and has exactly
\* two lines.
C6_Original ==
    DualFailure => (InOrder(out[2]) /\ LineCount(out[2]) = 2)

\* C6, amended: the Diagnostic is the identity of T, the T failure detail, a
\* line break, the identity of E, the E failure detail, in this order; it has
\* as many lines as the two details have together, which is exactly two
\* unless a detail is itself a Diagnostic (a shape that is a transparent
\* facade).
C6_DiagnosticOrder ==
    DualFailure =>
        /\ InOrder(out[2])
        /\ LineCount(out[2]) = LineCount(TDetail) + LineCount(EDetail)
        /\ (T[1] # "struct" /\ E[1] # "struct") => LineCount(out[2]) = 2
        /\ (T[1] = "struct" \/ E[1] = "struct") => LineCount(out[2]) > 2

\* a two-line Diagnostic for two different shapes
C6_Witness ==
    /\ DualFailure
    /\ T # E
    /\ InOrder(out[2])
    /\ LineCount(out[2]) = 2

\* C7 as stated: the failure message contains the identity of T and of E and
\* the parse-failure phrase exactly twice, for any pair of shapes.
C7_Original ==
    DualFailure =>
        /\ Contains(out[2], type_name(T))
        /\ Contains(out[2], type_name(E))
        /\ CountIn(PHRASE, out[2]) = 2

\* C7, amended: the failure message contains the identity of T and of E, and
\* the parse-failure phrase once at the head of each shape's half; any other
\* occurrence lies inside a failure detail (the Diagnostic of a shape that is
\* a transparent facade, or an echoed raw string), so the phrase occurs
\* exactly twice whenever neither detail contains it.
C7_DiagnosticCompleteness ==
    DualFailure =>
        /\ Contains(out[2], type_name(T))
        /\ Contains(out[2], type_name(E))
        /\ Contains(out[2], <<PHRASE>> \o type_name(T))
        /\ Contains(out[2], <<NL, PHRASE>> \o type_name(E))
        /\ CountIn(PHRASE, out[2])
              = 2 + CountIn(PHRASE, TDetail) + CountIn(PHRASE, EDetail)
        /\ (CountIn(PHRASE, TDetail) = 0 /\ CountIn(PHRASE, EDetail) = 0)
              => CountIn(PHRASE, out[2]) = 2

\* T equal to E, both an Outcome shape: the phrase occurs exactly twice
C7_Witness ==
    /\ DualFailure
    /\ T = E
    /\ T[1] = "enum"
    /\ Contains(out[2], type_name(T))
    /\ CountIn(PHRASE, out[2]) = 2

\* C8: encode is untagged. What an encode (into a raw value, or through
\* Serialize) produces for an Outcome is exactly the raw value of the
\* populated payload encoded on its own: no wrapper object, no tag.
C8_EncodeUntagged ==
    op \in EncodeOps => out = to_value(Payload(inp))

\* an error outcome of the transparent facade encoded as its bare payload
C8_Witness ==
    /\ op \in EncodeOps
    /\ facade = "struct"
    /\ IsFailure(inp)
    /\ out = to_value(Payload(inp))

\* the struct facade holds a wrapper
Wrapped == facade = "struct" /\ cur # None

\* C9: full mutability. native is the value most recently written (every
\* write is applied to it as it is made). After any sequence of replacements
\* and in-place modifications through the wrapper, every read (which side,
\* either payload, the serialization) gives what that value gives; a
\* replacement is what the wrapper holds next, and so is a modified payload.
C9_FullMutability ==
    /\ Wrapped =>
          /\ \A m \in ReadMethods :
                ResultMethod(m, deref(cur)) = ResultMethod(m, native)
          /\ serialize(cur) = to_value(native[2])
    /\ (Wrapped /\ op = "replace") => deref(cur) = inp
    /\ (Wrapped /\ op = "modify" /\ prev[1] = "Ok") => deref(cur) = Ok(inp)
    /\ (Wrapped /\ op = "modify" /\ prev[1] = "Err") => deref(cur) = prev
    /\ op = "read" => out = ResultMethod(inp[1], native)

\* a success flipped to an error through the wrapper, then read as an error
C9_Witness ==
    /\ Wrapped
    /\ op = "read"
    /\ prev # None
    /\ prev[1] = "Ok"
    /\ inp = <<"is_err">>
    /\ out = <<"bool", TRUE>>

\* C10: transparent-facade equivalence. The wrapper and a native Result
\* start from the same value and are given the same reads and writes: every
\* read returns the same on both, and the wrapper always wraps exactly the
\* native value.
C10_TransparentEquivalence ==
    /\ op = "read" => out = nout
    /\ Wrapped => cur[2] = native

\* after a write through the wrapper, a payload read agrees with the native one
C10_Witness ==
    /\ Wrapped
    /\ op = "read"
    /\ prev # None
    /\ prev # native
    /\ inp = <<"ok">>
    /\ out[1] = "Some"
    /\ out = nout

\* the last operation read a text that is not well-formed
SyntaxFailure == op = "from_str" /\ ~IsOk(Value_deserialize(inp))

SameDecode(e, s) ==
    \/ /\ IsOk(e)
       /\ IsOk(s)
       /\ IsSuccess(e[2]) = IsSuccess(s[2])
       /\ IsFailure(e[2]) = IsFailure(s[2])
       /\ Payload(e[2]) = Payload(s[2])
    \/ /\ ~IsOk(e)
       /\ ~IsOk(s)
       /\ e[2] = s[2]

\* C12: decode equivalence of the two facades. For every raw value handed
\* to a decode and every pair of shapes, what the decode returned is what
\* the other facade's decode returns for the same raw value and shapes:
\* try_from and deserialize give the same side with the same payload, or
\* both fail with the same Diagnostic.
C12_DecodeEquivalence ==
    Decoded =>
        /\ SameDecode(try_from(T, E, inp), deserialize(T, E, inp))
        /\ facade = "enum" => SameDecode(out, deserialize(T, E, inp))
        /\ facade = "struct" => SameDecode(try_from(T, E, inp), out)

\* a transparent-facade decode that failed with the Diagnostic try_from gives
C12_Witness ==
    /\ op = "deserialize"
    /\ ~IsOk(out)
    /\ T = <<"GoodT">>
    /\ E = <<"BadE">>
    /\ inp = <<"arr", <<>>>>
    /\ out[2] = try_from(T, E, inp)[2]
    /\ CountIn(PHRASE, out[2]) = 2

\* the native Result an instance of either facade stands for
AsResult(x) == IF IsSuccess(x) THEN Ok(Payload(x)) ELSE Err(Payload(x))

\* C13: encode equivalence. For the two-outcome value an encode was applied
\* to, the transparent facade's serialize, the transparent facade's
\* conversion to a raw value and the tagged facade's conversion to a raw
\* value all produce the same raw value, and it is what the encode returned.
C13_EncodeEquivalence ==
    op \in EncodeOps =>
        LET r == AsResult(inp)
        IN  /\ serialize(<<"JsonResult", r>>) = struct_into_value(<<"JsonResult", r>>)
            /\ struct_into_value(<<"JsonResult", r>>) = enum_into_value(from_result(r))
            /\ out = serialize(<<"JsonResult", r>>)
            /\ out = struct_into_value(<<"JsonResult", r>>)
            /\ out = enum_into_value(from_result(r))

\* an error outcome holding a record, converted by the transparent facade
C13_Witness ==
    /\ op = "into_value"
    /\ facade = "struct"
    /\ inp = <<"JsonResult", Err(<<"BadE", <<"String", "boom">>>>)>>
    /\ out = <<"obj", << <<"msg", <<"str", "boom">>>> >> >>
    /\ out = enum_into_value(<<"JsonResult::Err", <<"BadE", <<"String", "boom">>>>>>)

\* C14: native-to-tagged conversion. Converting a native Result to the
\* tagged facade always yields an instance (it cannot fail): Ok(v) becomes
\* the success variant holding v, Err(e) the error variant holding e, and
\* every native Result of the two shapes has a conversion.
C14_FromResult ==
    /\ op = "from_result" =>
          /\ inp \in NativeResults(T, E)
          /\ cur = out
          /\ cur # None
          /\ inp[1] = "Ok" => out = <<"JsonResult::Ok", inp[2]>>
          /\ inp[1] = "Err" => out = <<"JsonResult::Err", inp[2]>>
    /\ \A r \in NativeResults(T, E) :
          /\ from_result(r)[1] \in {"JsonResult::Ok", "JsonResult::Err"}
          /\ (from_result(r)[1] = "JsonResult::Ok") = (r[1] = "Ok")
          /\ from_result(r)[2] = r[2]

\* a native error converted to the error variant
C14_Witness ==
    /\ op = "from_result"
    /\ inp = Err(<<"String", "boom">>)
    /\ out = <<"JsonResult::Err", <<"String", "boom">>>>
    /\ cur = out

\* the last decode was for the two record shapes, GoodT and BadE
RecordDecode == Decoded /\ T = <<"GoodT">> /\ E = <<"BadE">>

\* a one-element array whose element decodes as the field of one of the two
\* record shapes
FieldArray(raw) ==
    /\ raw[1] = "arr"
    /\ Len(raw[2]) = 1
    /\ \/ IsOk(from_value(FieldShape(<<"GoodT">>), raw[2][1]))
       \/ IsOk(from_value(FieldShape(<<"BadE">>), raw[2][1]))

OneSide(x) ==
    /\ x[1] = (IF facade = "enum"
               THEN (IF IsSuccess(x) THEN "JsonResult::Ok" ELSE "JsonResult::Err")
               ELSE "JsonResult")
    /\ IsSuccess(x) # IsFailure(x)
    /\ IsSuccess(x) => Payload(x) \in ValuesOf(T)
    /\ IsFailure(x) => Payload(x) \in ValuesOf(E)

\* C16: Outcome invariant. In every reachable state, whatever made it
\* (direct construction, conversion from a native Result, a decode, a write
\* through the wrapper), the instance held has exactly one side populated,
\* never both and never neither, and so has every instance a decode or a
\* conversion returned.
C16_OutcomeInvariant ==
    /\ cur # None => OneSide(cur)
    /\ (Decoded /\ IsOk(out)) => OneSide(out[2])
    /\ op = "from_result" => OneSide(out)
    /\ Wrapped => (native[1] \in {"Ok", "Err"} /\ Len(native) = 2)

\* a success replaced by an error through the wrapper: the error side alone
C16_Witness ==
    /\ Wrapped
    /\ op = "replace"
    /\ prev[1] = "Ok"
    /\ IsFailure(cur)
    /\ ~IsSuccess(cur)
    /\ Payload(cur) \in ValuesOf(E)

\* the positions of the attempts at shape which in an attempt log
AttemptsAt(log, which) == {i \in 1..Len(log) : log[i][1] = which}

\* C17 as stated: in a decode the shapes are tried in sequence, success
\* shape first; the error shape is attempted only after the success-shape
\* attempt failed, so not at all when it succeeded; each shape is attempted
\* at most once.
C17_Original ==
    Decoded =>
        /\ attempts # <<>>
        /\ attempts[1][1] = "T"
        /\ \A i \in AttemptsAt(attempts, "E") :
              \E j \in 1..(i - 1) : attempts[j] = <<"T", FALSE>>
        /\ Cardinality(AttemptsAt(attempts, "T")) <= 1
        /\ Cardinality(AttemptsAt(attempts, "E")) <= 1

\* C17, amended: in a decode the success shape is attempted first and the
\* error shape second, each exactly once, and the error shape is attempted
\* whether or not the success-shape attempt succeeded; what the error-shape
\* attempt gave is returned only when the success-shape attempt failed.
C17_AttemptOrder ==
    Decoded =>
        /\ attempts = <<<<"T", IsOk(from_value(T, inp))>>,
                        <<"E", IsOk(from_value(E, inp))>>>>
        /\ Cardinality(AttemptsAt(attempts, "T")) = 1
        /\ Cardinality(AttemptsAt(attempts, "E")) = 1
        /\ attempts[1][2] => (IsOk(out) /\ IsSuccess(out[2]))
        /\ (IsOk(out) /\ IsFailure(out[2])) => (~attempts[1][2] /\ attempts[2][2])

\* a decode whose success-shape attempt succeeded, and whose error-shape
\* attempt was made all the same, and failed
C17_Witness ==
    /\ op = "try_from"
    /\ T = <<"u32">>
    /\ E = <<"String">>
    /\ inp = <<"num", 1>>
    /\ attempts = <<<<"T", TRUE>>, <<"E", FALSE>>>>
    /\ out = Ok(<<"JsonResult::Ok", <<"u32", 1>>>>)

\* two decode results of the tagged facade are the same: the same variant
\* holding the same payload, or a failure in both
SameVariant(a, b) ==
    \/ (IsOk(a) /\ IsOk(b) /\ a[2] = b[2])
    \/ (~IsOk(a) /\ ~IsOk(b))

\* C18: the two decode paths of the tagged facade. For every raw value and
\* every pair of shapes, the derived untagged deserialization and try_from
\* give the same result: what either returned for a raw value is the variant
\* and payload the other returns for it, or both fail.
C18_TaggedDecodePaths ==
    /\ op = "untagged" => SameVariant(out, try_from(T, E, inp))
    /\ op = "try_from" => SameVariant(out, untagged_deserialize(T, E, inp))

\* the derived decode falling back to the error variant, as try_from does
C18_Witness ==
    /\ op = "untagged"
    /\ T = <<"GoodT">>
    /\ E = <<"BadE">>
    /\ inp = <<"obj", << <<"msg", <<"str", "boom">>>> >> >>
    /\ out = Ok(<<"JsonResult::Err", <<"BadE", <<"String", "boom">>>>>>)
    /\ out = try_from(T, E, inp)

====
